---- MODULE Spec2Model ----
(***************************************************************************)
(* Model of hypothesis/searchstrategy/misc.py (BoolStrategy, JustStrategy,  *)
(* RandomStrategy, SampledFromStrategy and the module's registrations) and  *)
(* of hypothesis/settings.py (Settings).                                    *)
(*                                                                          *)
(* Python values are records [t |-> type tag, i |-> payload]:               *)
(*   none: None         bool: True/False (i = 1/0)     int: the integer i   *)
(*   str: the i-th string literal      list: the i-th list (unhashable)     *)
(*   rng: RandomWithSeed(i)                                                 *)
(* The outcome of a call is [err |-> "ok" or the exception class, val].     *)
(***************************************************************************)
EXTENDS Integers, Sequences, FiniteSets, TLC

VARIABLES strategy, pv, last, registry, log, resolved, settings

vars == <<strategy, pv, last, registry, log, resolved, settings>>

\* ---------------------------------------------------------------- bounds
MaxLen == 2      \* longest element tuple given to SampledFromStrategy
Scale == 2       \* probabilities are p/Scale, p in 0..Scale
MaxRegs == 2     \* registrations made after the module's own
MaxArg == 2      \* largest number passed to Settings

\* ---------------------------------------------------------------- values
NoneV == [t |-> "none", i |-> 0]
B(b) == [t |-> "bool", i |-> IF b THEN 1 ELSE 0]
I(n) == [t |-> "int", i |-> n]
S(n) == [t |-> "str", i |-> n]
L(n) == [t |-> "list", i |-> n]
Rng(n) == [t |-> "rng", i |-> n]

MaxInt == MaxLen + 1

Ints == {I(n) : n \in -1..MaxInt}
Bools == {B(TRUE), B(FALSE)}
\* null, integer or sequence: the shapes basic data may have
BasicData == {NoneV} \cup Ints \cup {L(0)}
\* every value a caller may hand to a strategy
Vals == BasicData \cup Bools \cup {S(0)}
\* candidate elements of a SampledFromStrategy, and values of a Just
ElemVals == {I(1), I(2), B(TRUE), L(0)}
JustVals == ElemVals \cup {NoneV}

Ok(v) == [err |-> "ok", val |-> v]
Raise(e) == [err |-> e, val |-> NoneV]

\* isinstance(value, bool)
IsBool(v) == v.t = "bool"
\* isinstance(value, int) / isinstance(value, integer_types): bool is a
\* subclass of int
IsInt(v) == v.t \in {"int", "bool"}
\* hash(v) succeeds
Hashable(v) == v.t # "list"
\* the key under which == and hash identify a value: True == 1, False == 0
PyKey(v) == IF v.t = "bool" THEN I(v.i) ELSE v
\* Python's ==
PyEq(a, b) == PyKey(a) = PyKey(b)
\* truth value of a Python object
Truthy(v) == CASE v.t = "none" -> FALSE
               [] v.t \in {"bool", "int"} -> v.i # 0
               [] OTHER -> TRUE

\* check_type(typ, value): the caller passes isinstance(value, typ)
check_type(isInstance) == IF isInstance THEN "ok" ELSE "TypeError"
\* check_data_type(typ, value)
check_data_type(isInstance) == IF isInstance THEN "ok" ELSE "BadData"

\* ------------------------------------------------------------ randomness
\* raw outcomes of the randomness source
Rands == 0..MaxInt
SeedBits == 128
\* dist.biased_coin(random, p): true with probability p/Scale
biased_coin(r, p) == (r % Scale) < p
\* random.getrandbits(k); the raw outcomes modelled are all below 2^k
getrandbits(r, k) == IF k >= 31 THEN r ELSE r % (2 ^ k)
\* random.randint(a, b): ValueError on an empty range
randint(r, a, b) == IF b < a THEN Raise("ValueError")
                    ELSE Ok(I(a + (r % (b - a + 1))))

\* -------------------------------------------------------------- strategies
NoBound == -1         \* the class sets no size bound of its own
CallerId == "caller"  \* an object the caller holds
ModuleId == "module"  \* an object the module holds
NewId == "new"        \* an object allocated by the call

Strat(k, v, es, lo, hi, id) ==
    [id |-> id, kind |-> k, value |-> v, elements |-> es,
     size_lower_bound |-> lo, size_upper_bound |-> hi]

BoolStrategy(id) == Strat("Bool", NoneV, <<>>, 2, 2, id)

JustStrategy(value, id) == Strat("Just", value, <<>>, 1, 1, id)

RandomStrategy(id) == Strat("Random", NoneV, <<>>, NoBound, NoBound, id)

Range(es) == {es[j] : j \in 1..Len(es)}

\* an __init__ that always takes the raw element count
SampledFromStrategy_raw_count(elements, id) ==
    Strat("Sampled", NoneV, elements, Len(elements), Len(elements), id)

\* SampledFromStrategy.__init__
SampledFromStrategy(elements, id) ==
    IF \A e \in Range(elements) : Hashable(e)
    THEN LET s == {PyKey(e) : e \in Range(elements)}
         IN Strat("Sampled", NoneV, elements, Cardinality(s), Cardinality(s), id)
    ELSE Strat("Sampled", NoneV, elements, Len(elements), Len(elements), id)

\* parameters: p is the coin bias of a Bool, subset the chosen indices of a
\* SampledFrom; NoParam is "nothing drawn yet"
Param(p, sub) == [p |-> p, subset |-> sub]
NoParam == Param(-1, {})
ParamSpace(self) ==
    CASE self.kind = "Bool" -> {Param(p, {}) : p \in 0..Scale}
      [] self.kind = "Sampled" ->
            {Param(-1, sub) : sub \in (SUBSET (0..(Len(self.elements) - 1))) \ {{}}}
      [] OTHER -> {Param(-1, {})}

\* BoolStrategy
BoolStrategy_produce_template(self, r, p) == Ok(B(biased_coin(r, p.p)))

\* a to_basic that encodes the negation
BoolStrategy_to_basic_negated(self, value) ==
    IF check_type(IsBool(value)) # "ok"
    THEN Raise(check_type(IsBool(value)))
    ELSE Ok(I(1 - value.i))

BoolStrategy_to_basic(self, value) ==
    IF check_type(IsBool(value)) # "ok"
    THEN Raise(check_type(IsBool(value)))
    ELSE Ok(I(value.i))

BoolStrategy_from_basic(self, value) ==
    IF check_data_type(IsInt(value)) # "ok"
    THEN Raise(check_data_type(IsInt(value)))
    ELSE Ok(B(value.i # 0))

\* JustStrategy
JustStrategy_produce_template(self, r, p) == Ok(self.value)

JustStrategy_to_basic(self, template) == Ok(NoneV)

\* a from_basic without the `is not None` test
JustStrategy_from_basic_unchecked(self, data) == Ok(self.value)

JustStrategy_from_basic(self, data) ==
    IF data # NoneV THEN Raise("BadData") ELSE Ok(self.value)

\* RandomStrategy
RandomStrategy_from_basic(self, data) ==
    IF check_data_type(IsInt(data)) # "ok"
    THEN Raise(check_data_type(IsInt(data)))
    ELSE Ok(data)

\* a to_basic that checks the type of its argument
RandomStrategy_to_basic_checked(self, template) ==
    IF check_type(IsInt(template)) # "ok"
    THEN Raise(check_type(IsInt(template)))
    ELSE Ok(template)

RandomStrategy_to_basic(self, template) == Ok(template)

RandomStrategy_produce_template(self, r, p) == Ok(I(getrandbits(r, SeedBits)))

RandomStrategy_reify(self, template) == Ok(Rng(template.i))

\* SampledFromStrategy
SampledFromStrategy_to_basic(self, template) == Ok(template)

\* a from_basic whose upper test is off by one
SampledFromStrategy_from_basic_last_rejected(self, data) ==
    IF check_data_type(IsInt(data)) # "ok"
    THEN Raise(check_data_type(IsInt(data)))
    ELSE IF data.i < 0 THEN Raise("BadData")
    ELSE IF data.i >= Len(self.elements) - 1 THEN Raise("BadData")
    ELSE Ok(data)

\* a from_basic without the test for negative indices
SampledFromStrategy_from_basic_no_lower_test(self, data) ==
    IF check_data_type(IsInt(data)) # "ok"
    THEN Raise(check_data_type(IsInt(data)))
    ELSE IF data.i >= Len(self.elements) THEN Raise("BadData")
    ELSE Ok(data)

SampledFromStrategy_from_basic(self, data) ==
    IF check_data_type(IsInt(data)) # "ok"
    THEN Raise(check_data_type(IsInt(data)))
    ELSE IF data.i < 0 THEN Raise("BadData")
    ELSE IF data.i >= Len(self.elements) THEN Raise("BadData")
    ELSE Ok(data)

\* a produce_template whose range includes len(elements)
SampledFromStrategy_produce_template_inclusive(self, r, p) ==
    randint(r, 0, Len(self.elements))

SampledFromStrategy_produce_template(self, r, p) ==
    randint(r, 0, Len(self.elements) - 1)

\* tuple.__getitem__: negative indices count from the end
getitem(es, idx) ==
    IF ~IsInt(idx) THEN Raise("TypeError")
    ELSE IF idx.i >= 0 /\ idx.i < Len(es) THEN Ok(es[idx.i + 1])
    ELSE IF idx.i < 0 /\ -idx.i <= Len(es) THEN Ok(es[Len(es) + idx.i + 1])
    ELSE Raise("IndexError")

SampledFromStrategy_reify(self, template) == getitem(self.elements, template)

\* SearchStrategy.reify, inherited by BoolStrategy and JustStrategy
SearchStrategy_reify(self, template) == Ok(template)

\* method dispatch on the class of self
produce_template(self, r, p) ==
    CASE self.kind = "Bool" -> BoolStrategy_produce_template(self, r, p)
      [] self.kind = "Just" -> JustStrategy_produce_template(self, r, p)
      [] self.kind = "Random" -> RandomStrategy_produce_template(self, r, p)
      [] self.kind = "Sampled" -> SampledFromStrategy_produce_template(self, r, p)

to_basic(self, value) ==
    CASE self.kind = "Bool" -> BoolStrategy_to_basic(self, value)
      [] self.kind = "Just" -> JustStrategy_to_basic(self, value)
      [] self.kind = "Random" -> RandomStrategy_to_basic(self, value)
      [] self.kind = "Sampled" -> SampledFromStrategy_to_basic(self, value)

from_basic(self, data) ==
    CASE self.kind = "Bool" -> BoolStrategy_from_basic(self, data)
      [] self.kind = "Just" -> JustStrategy_from_basic(self, data)
      [] self.kind = "Random" -> RandomStrategy_from_basic(self, data)
      [] self.kind = "Sampled" -> SampledFromStrategy_from_basic(self, data)

reify(self, template) ==
    CASE self.kind = "Random" -> RandomStrategy_reify(self, template)
      [] self.kind = "Sampled" -> SampledFromStrategy_reify(self, template)
      [] OTHER -> SearchStrategy_reify(self, template)

\* ------------------------------------------------------- strategy operations
SeqsUpTo(A, n) == UNION {[1..k -> A] : k \in 0..n}

\* the record of the last call: its receiver and parameter as they were when
\* it was made, its argument and outcome, where the argument came from
\* (origin: the caller, or the call that returned it) and the value that
\* call was given (orig)
Called(op, arg, res, origin, orig) ==
    [pv |-> pv, self |-> strategy, op |-> op, arg |-> arg, res |-> res,
     origin |-> origin, orig |-> orig]

\* the strategies a caller can construct
Strategies ==
    {BoolStrategy(CallerId), RandomStrategy(CallerId)}
    \cup {JustStrategy(v, CallerId) : v \in JustVals}
    \cup {SampledFromStrategy(es, CallerId) : es \in SeqsUpTo(ElemVals, MaxLen)}

\* one parameter is drawn from the strategy's parameter distribution
DrawParameter ==
    /\ \E q \in ParamSpace(strategy) :
          /\ pv' = q
          /\ last' = [pv |-> q, self |-> strategy, op |-> "draw",
                      arg |-> NoneV, res |-> Ok(NoneV),
                      origin |-> "caller", orig |-> NoneV]
    /\ UNCHANGED <<strategy, registry, log, resolved, settings>>

\* only the Bool strategy reads its parameter, so only it needs one drawn
ProduceTemplate ==
    /\ strategy.kind = "Bool" => pv \in ParamSpace(strategy)
    /\ \E r \in Rands :
          last' = Called("produce_template", NoneV,
                         produce_template(strategy, r, pv), "caller", NoneV)
    /\ UNCHANGED <<strategy, pv, registry, log, resolved, settings>>

\* to_basic of a value the caller supplies
ToBasic ==
    /\ \E v \in Vals :
          last' = Called("to_basic", v, to_basic(strategy, v), "caller", v)
    /\ UNCHANGED <<strategy, pv, registry, log, resolved, settings>>

\* to_basic of the template the last call returned
ToBasicOfResult ==
    /\ last.op \in {"produce_template", "from_basic"}
    /\ last.res.err = "ok"
    /\ last' = Called("to_basic", last.res.val,
                      to_basic(strategy, last.res.val), last.op,
                      IF last.op = "from_basic" THEN last.arg ELSE last.res.val)
    /\ UNCHANGED <<strategy, pv, registry, log, resolved, settings>>

\* from_basic of data the caller supplies
FromBasic ==
    /\ \E d \in Vals :
          last' = Called("from_basic", d, from_basic(strategy, d), "caller", d)
    /\ UNCHANGED <<strategy, pv, registry, log, resolved, settings>>

\* from_basic of what the last call returned: the encoding of a template
\* (a round trip when that template was produced), or a produced template
FromBasicOfResult ==
    /\ last.op \in {"to_basic", "produce_template"}
    /\ last.res.err = "ok"
    /\ last' = Called("from_basic", last.res.val,
                      from_basic(strategy, last.res.val),
                      IF last.op = "to_basic" /\ last.origin = "produce_template"
                      THEN "round_trip" ELSE last.op,
                      IF last.op = "to_basic" THEN last.arg ELSE last.res.val)
    /\ UNCHANGED <<strategy, pv, registry, log, resolved, settings>>

\* reify is applied to a template: one produced, or one decoded
Reify ==
    /\ last.op \in {"produce_template", "from_basic"}
    /\ last.res.err = "ok"
    /\ last' = Called("reify", last.res.val, reify(strategy, last.res.val),
                      last.op, last.arg)
    /\ UNCHANGED <<strategy, pv, registry, log, resolved, settings>>

\* ---------------------------------------------------------------- registry
\* a descriptor: the None marker, a type object, an instance of
\* descriptors.Just / descriptors.SampledFrom, a SearchStrategy instance, or
\* a string (which nothing handles)
NoStrat == Strat("none", NoneV, <<>>, NoBound, NoBound, NewId)
Desc(tag, v, es, st) == [strategy |-> st, value |-> v, elements |-> es, tag |-> tag]
DNone == Desc("None", NoneV, <<>>, NoStrat)
DNoneType == Desc("NoneType", NoneV, <<>>, NoStrat)
DBool == Desc("bool", NoneV, <<>>, NoStrat)
DRandom == Desc("Random", NoneV, <<>>, NoStrat)
DInt == Desc("int", NoneV, <<>>, NoStrat)
DStr == Desc("str", NoneV, <<>>, NoStrat)
DJust(v) == Desc("Just", v, <<>>, NoStrat)
DSampled(es) == Desc("SampledFrom", NoneV, es, NoStrat)
DStrategy(st) == Desc("SearchStrategy", NoneV, <<>>, st)
NoKey == Desc("", NoneV, <<>>, NoStrat)

\* the descriptors resolved
Descs ==
    {DNone, DNoneType, DBool, DRandom, DInt, DStr,
     DJust(NoneV), DJust(I(1)), DSampled(<<I(1), I(2)>>),
     DSampled(<<I(1), B(TRUE)>>),
     DStrategy(BoolStrategy(CallerId)), DStrategy(JustStrategy(I(2), CallerId)),
     DStrategy(SampledFromStrategy(<<I(2)>>, CallerId))}

\* isinstance(descriptor, cls)
IsInstance(d, cls) ==
    \/ cls = "object"
    \/ cls = "type" /\ d.tag \in {"NoneType", "bool", "Random", "int"}
    \/ cls = d.tag /\ d.tag \in {"Just", "SampledFrom", "SearchStrategy", "str"}

\* the constructors registered by the module
define_just_strategy(strategies, descriptor) ==
    JustStrategy(descriptor.value, NewId)

define_strategy_strategy(strategies, descriptor) == descriptor.strategy

define_random_strategy(strategies, descriptor) == RandomStrategy(NewId)

define_sampled_strategy(strategies, descriptor) ==
    SampledFromStrategy(descriptor.elements, NewId)

\* a constructor for None that fixes another value
define_none_strategy_zero(strategies, descriptor) == JustStrategy(I(0), NewId)

define_none_strategy(strategies, descriptor) == JustStrategy(NoneV, NewId)

\* constructors registered later by a user of the table
UserCtors == {"user_a", "user_b"}

Apply(ctor, strategies, descriptor) ==
    CASE ctor = "BoolStrategy()" -> BoolStrategy(ModuleId)
      [] ctor = "define_just_strategy" -> define_just_strategy(strategies, descriptor)
      [] ctor = "define_strategy_strategy" ->
            define_strategy_strategy(strategies, descriptor)
      [] ctor = "define_random_strategy" ->
            define_random_strategy(strategies, descriptor)
      [] ctor = "define_sampled_strategy" ->
            define_sampled_strategy(strategies, descriptor)
      [] ctor = "define_none_strategy" -> define_none_strategy(strategies, descriptor)
      [] ctor = "user_a" -> JustStrategy(I(1), NewId)
      [] ctor = "user_b" -> RandomStrategy(NewId)

ExactReg(key, ctor) == [cls |-> "", ctor |-> ctor, key |-> key, how |-> "exact"]
InstancesReg(cls, ctor) ==
    [cls |-> cls, ctor |-> ctor, key |-> NoKey, how |-> "instances"]

\* the registrations the module makes when it is loaded, in execution order
\* (stacked decorators apply innermost first)
ModuleRegistrations ==
    << ExactReg(DBool, "BoolStrategy()"),
       InstancesReg("Just", "define_just_strategy"),
       InstancesReg("SearchStrategy", "define_strategy_strategy"),
       ExactReg(DRandom, "define_random_strategy"),
       InstancesReg("SampledFrom", "define_sampled_strategy"),
       ExactReg(DNoneType, "define_none_strategy"),
       ExactReg(DNone, "define_none_strategy") >>

EmptyTable == [exact |-> <<>>, instances |-> <<>>]

\* a strategy_for that keeps the first registration of a key
strategy_for_first_wins(table, key, ctor) ==
    IF key \in DOMAIN table.exact THEN table
    ELSE [table EXCEPT !.exact =
            [k \in (DOMAIN table.exact) \cup {key} |->
                IF k = key THEN ctor ELSE table.exact[k]]]

\* strategy_for(key)(ctor): the exact-key entry is overwritten
strategy_for(table, key, ctor) ==
    [table EXCEPT !.exact =
        [k \in (DOMAIN table.exact) \cup {key} |->
            IF k = key THEN ctor ELSE table.exact[k]]]

\* strategy_for_instances(cls)(ctor): the rule is added after the others
strategy_for_instances(table, cls, ctor) ==
    [table EXCEPT !.instances = Append(@, [cls |-> cls, ctor |-> ctor])]

Register(table, reg) ==
    IF reg.how = "exact" THEN strategy_for(table, reg.key, reg.ctor)
    ELSE strategy_for_instances(table, reg.cls, reg.ctor)

RECURSIVE RegisterAll(_, _)
RegisterAll(table, regs) ==
    IF regs = <<>> THEN table
    ELSE RegisterAll(Register(table, Head(regs)), Tail(regs))

Resolution(d, err, ctor, st) ==
    [strategy |-> st, err |-> err, d |-> d, ctor |-> ctor, done |-> TRUE]
Unresolved ==
    [strategy |-> NoStrat, err |-> "ok", d |-> NoKey, ctor |-> "", done |-> FALSE]

\* resolution of a descriptor: exact key, then the instance rules in
\* registration order, then failure
Resolve(table, d) ==
    IF d \in DOMAIN table.exact
    THEN Resolution(d, "ok", table.exact[d], Apply(table.exact[d], table, d))
    ELSE LET hits == {j \in 1..Len(table.instances) :
                         IsInstance(d, table.instances[j].cls)}
         IN IF hits = {} THEN Resolution(d, "ResolutionError", "", NoStrat)
            ELSE LET j == CHOOSE h \in hits : \A g \in hits : h <= g
                 IN Resolution(d, "ok", table.instances[j].ctor,
                               Apply(table.instances[j].ctor, table, d))

UserKeys == {DNone, DBool, DInt}
UserClasses == {"Just", "object"}

RegisterExact ==
    /\ Len(log) < Len(ModuleRegistrations) + MaxRegs
    /\ \E key \in UserKeys, ctor \in UserCtors :
          /\ registry' = strategy_for(registry, key, ctor)
          /\ log' = Append(log, ExactReg(key, ctor))
    /\ resolved' = Unresolved
    /\ UNCHANGED <<strategy, pv, last, settings>>

RegisterInstances ==
    /\ Len(log) < Len(ModuleRegistrations) + MaxRegs
    /\ \E cls \in UserClasses, ctor \in UserCtors :
          /\ registry' = strategy_for_instances(registry, cls, ctor)
          /\ log' = Append(log, InstancesReg(cls, ctor))
    /\ resolved' = Unresolved
    /\ UNCHANGED <<strategy, pv, last, settings>>

ResolveDescriptor ==
    /\ \E d \in Descs : resolved' = Resolve(registry, d)
    /\ UNCHANGED <<strategy, pv, last, registry, log, settings>>

\* ---------------------------------------------------------------- settings
DefaultMinSatisfyingExamples == 5
DefaultMaxExamples == 200
DefaultTimeout == 60

Omitted == [t |-> "omitted", i |-> 0]
Unbound == [t |-> "unbound", i |-> 0]
\* a parameter left out takes the signature's default, None
Bind(arg) == IF arg = Omitted THEN NoneV ELSE arg
\* Python's `a or b`
PyOr(a, b) == IF Truthy(a) THEN a ELSE b

\* an __init__ that tests `is None` instead of truth
Settings_is_none(a, b, c, dflt) ==
    [min_satisfying_examples |->
        IF Bind(a) = NoneV THEN dflt.min_satisfying_examples ELSE Bind(a),
     max_examples |-> IF Bind(b) = NoneV THEN dflt.max_examples ELSE Bind(b),
     timeout |-> IF Bind(c) = NoneV THEN dflt.timeout ELSE Bind(c)]

\* Settings.__init__; dflt is what the global `default` is bound to
Settings(a, b, c, dflt) ==
    [min_satisfying_examples |-> PyOr(Bind(a), dflt.min_satisfying_examples),
     max_examples |-> PyOr(Bind(b), dflt.max_examples),
     timeout |-> PyOr(Bind(c), dflt.timeout)]

\* the module-level default, built while `default` is not yet bound
default ==
    Settings(I(DefaultMinSatisfyingExamples), I(DefaultMaxExamples),
             I(DefaultTimeout),
             [min_satisfying_examples |-> Unbound, max_examples |-> Unbound,
              timeout |-> Unbound])

ArgVals == {Omitted, NoneV} \cup {I(n) : n \in -1..MaxArg}

NewSettings ==
    /\ \E a \in ArgVals, b \in ArgVals, c \in ArgVals :
          settings' = [args |-> <<a, b, c>>, obj |-> Settings(a, b, c, default)]
    /\ UNCHANGED <<strategy, pv, last, registry, log, resolved>>

\* ------------------------------------------------------------ specifications
NoCall(s) ==
    [pv |-> NoParam, self |-> s, op |-> "init", arg |-> NoneV,
     res |-> Ok(NoneV), origin |-> "caller", orig |-> NoneV]

\* the module is loaded: its registrations are made, `default` is bound
Loaded ==
    /\ pv = NoParam
    /\ registry = RegisterAll(EmptyTable, ModuleRegistrations)
    /\ log = ModuleRegistrations
    /\ resolved = Unresolved
    /\ settings = [args |-> <<I(DefaultMinSatisfyingExamples),
                              I(DefaultMaxExamples), I(DefaultTimeout)>>,
                   obj |-> default]

\* a strategy has been constructed
Init ==
    /\ Loaded
    /\ strategy \in Strategies
    /\ last = NoCall(strategy)

Next ==
    \/ DrawParameter
    \/ ProduceTemplate
    \/ ToBasic
    \/ ToBasicOfResult
    \/ FromBasic
    \/ FromBasicOfResult
    \/ Reify

Spec == Init /\ [][Next]_vars

\* the only strategy is the BoolStrategy() the module registers
InitModule ==
    /\ Loaded
    /\ strategy = BoolStrategy(ModuleId)
    /\ last = NoCall(strategy)

NextRegistry ==
    \/ RegisterExact
    \/ RegisterInstances
    \/ ResolveDescriptor

SpecRegistry == InitModule /\ [][NextRegistry]_vars

NextSettings == NewSettings

SpecSettings == InitModule /\ [][NextSettings]_vars

\* ------------------------------------------------------------------ claims
FromBasicCall == last.op = "from_basic"
ToBasicCall == last.op = "to_basic"

\* C1: round-trip law. For each of the four strategies and every template t
\* that produce_template returned, to_basic(t) succeeds and
\* from_basic(to_basic(t)) succeeds and equals t.
C1_RoundTrip ==
    /\ (ToBasicCall /\ last.origin = "produce_template") => last.res.err = "ok"
    /\ (FromBasicCall /\ last.origin = "round_trip") =>
          /\ last.res.err = "ok"
          /\ PyEq(last.res.val, last.orig)

C1_Witness ==
    /\ FromBasicCall /\ last.origin = "round_trip"
    /\ strategy.kind = "Sampled" /\ Len(strategy.elements) = 2
    /\ last.orig = I(1)
    /\ last.res = Ok(I(1))

\* C2: from_basic fails only with BadData, and exactly on illegal data. For
\* basic data d (null, integer or sequence): Bool and Random fail with
\* BadData when d is not an integer and return a template otherwise; Just
\* fails with BadData when d is not null and returns its fixed value when d
\* is null; no from_basic call ends in another error, and the call leaves
\* the strategy (and the parameter) as they were.
C2_FromBasicBadData ==
    FromBasicCall =>
        /\ last.res.err \in {"ok", "BadData"}
        /\ strategy = last.self
        /\ pv = last.pv
        /\ (last.arg \in BasicData /\ strategy.kind \in {"Bool", "Random"}) =>
              IF last.arg.t = "int" THEN last.res.err = "ok"
              ELSE last.res = Raise("BadData")
        /\ (last.arg \in BasicData /\ strategy.kind = "Just") =>
              IF last.arg = NoneV THEN last.res = Ok(strategy.value)
              ELSE last.res = Raise("BadData")

C2_Witness ==
    /\ FromBasicCall
    /\ strategy.kind = "Just" /\ strategy.value = I(1)
    /\ last.arg = I(1)
    /\ last.res = Raise("BadData")

\* C3: for a SampledFrom over n elements and an integer i, from_basic(i)
\* fails with BadData if and only if i < 0 or i >= n; otherwise it returns i
\* and reify of that template yields elements[i].
C3_SampledIndexBounds ==
    (strategy.kind = "Sampled" /\ last.orig.t = "int") =>
        LET n == Len(strategy.elements)
            i == last.orig.i
        IN /\ (FromBasicCall /\ last.origin = "caller") =>
                 IF i < 0 \/ i >= n THEN last.res = Raise("BadData")
                 ELSE /\ last.res = Ok(I(i))
                      /\ reify(strategy, last.res.val) = Ok(strategy.elements[i + 1])
           /\ (last.op = "reify" /\ last.origin = "from_basic") =>
                 /\ 0 <= i /\ i < n
                 /\ last.arg = I(i)
                 /\ last.res = Ok(strategy.elements[i + 1])

C3_Witness ==
    /\ last.op = "reify" /\ last.origin = "from_basic"
    /\ strategy.kind = "Sampled"
    /\ strategy.elements = <<L(0), I(2)>>
    /\ last.orig = I(1)
    /\ last.res = Ok(I(2))

\* the argument does not have the runtime shape of the strategy's templates
WrongShape(self, v) ==
    CASE self.kind = "Bool" -> v.t # "bool"
      [] self.kind = "Just" -> v.t # self.value.t
      [] OTHER -> v.t \notin {"int", "bool"}

\* C4 as stated: for every strategy, to_basic of a value of the wrong
\* runtime shape fails with a TypeError and returns no basic data.
C4_AsStated ==
    (ToBasicCall /\ WrongShape(strategy, last.arg)) => last.res = Raise("TypeError")

\* C4 as amended: Bool.to_basic fails with a TypeError on every value that
\* is not a boolean; Just.to_basic returns null for every value and
\* Random.to_basic and SampledFrom.to_basic return every value unchanged,
\* whatever its shape.
C4_OnlyBoolChecks ==
    ToBasicCall =>
        /\ (strategy.kind = "Bool" /\ last.arg.t = "bool") =>
              last.res = Ok(I(last.arg.i))
        /\ (strategy.kind = "Bool" /\ last.arg.t # "bool") =>
              last.res = Raise("TypeError")
        /\ strategy.kind = "Just" => last.res = Ok(NoneV)
        /\ strategy.kind \in {"Random", "Sampled"} => last.res = Ok(last.arg)

C4_Witness ==
    /\ ToBasicCall
    /\ strategy.kind = "Random"
    /\ last.arg = S(0)
    /\ last.res = Ok(S(0))

\* C5 as stated: for every basic-data value d that from_basic accepts,
\* to_basic(from_basic(d)) == d.
C5_AsStated ==
    (ToBasicCall /\ last.origin = "from_basic" /\ last.orig \in BasicData) =>
        /\ last.res.err = "ok"
        /\ PyEq(last.res.val, last.orig)

\* C5 as amended: for Just, Random and SampledFrom,
\* to_basic(from_basic(d)) == d for every basic-data value d that from_basic
\* accepts; for Bool, to_basic(from_basic(d)) is 1 when d # 0 and 0 when
\* d = 0, so it equals d only for d in {0, 1}.
C5_InverseExceptBool ==
    (ToBasicCall /\ last.origin = "from_basic" /\ last.orig \in BasicData) =>
        /\ last.res.err = "ok"
        /\ IF strategy.kind = "Bool"
           THEN /\ last.res.val = I(IF last.orig.i # 0 THEN 1 ELSE 0)
                /\ PyEq(last.res.val, last.orig) <=> last.orig.i \in {0, 1}
           ELSE PyEq(last.res.val, last.orig)

C5_Witness ==
    /\ ToBasicCall /\ last.origin = "from_basic"
    /\ strategy.kind = "Bool"
    /\ last.orig = I(2)
    /\ last.res = Ok(I(1))

\* the number of elements that are equal to no earlier element
DistinctCount(es) ==
    Cardinality({j \in 1..Len(es) : \A k \in 1..(j - 1) : ~PyEq(es[k], es[j])})

\* C8: a SampledFrom built from hashable elements has size_lower_bound =
\* size_upper_bound = the number of distinct elements; with an unhashable
\* element both equal the raw element count; Bool has [2, 2], Just [1, 1];
\* for these three 0 <= size_lower_bound <= size_upper_bound, and no later
\* operation changes the bounds.
C8_SizeBounds ==
    /\ strategy.kind = "Sampled" =>
          LET es == strategy.elements
              c == IF \A j \in 1..Len(es) : Hashable(es[j])
                   THEN DistinctCount(es) ELSE Len(es)
          IN strategy.size_lower_bound = c /\ strategy.size_upper_bound = c
    /\ strategy.kind = "Bool" =>
          strategy.size_lower_bound = 2 /\ strategy.size_upper_bound = 2
    /\ strategy.kind = "Just" =>
          strategy.size_lower_bound = 1 /\ strategy.size_upper_bound = 1
    /\ strategy.kind \in {"Bool", "Just", "Sampled"} =>
          /\ 0 <= strategy.size_lower_bound
          /\ strategy.size_lower_bound <= strategy.size_upper_bound
    /\ strategy.size_lower_bound = last.self.size_lower_bound
    /\ strategy.size_upper_bound = last.self.size_upper_bound

C8_Witness ==
    /\ strategy.kind = "Sampled"
    /\ strategy.elements = <<B(TRUE), I(1)>>
    /\ strategy.size_lower_bound = 1 /\ strategy.size_upper_bound = 1
    /\ last.op = "reify"
    /\ last.res = Ok(I(1))

C6_NoneAndPassthrough ==
    (resolved.done /\ log = ModuleRegistrations) =>
        /\ resolved.d \in {DNone, DNoneType} =>
              /\ resolved.err = "ok"
              /\ resolved.strategy.kind = "Just"
              /\ resolved.strategy.size_lower_bound = 1
              /\ resolved.strategy.size_upper_bound = 1
              /\ \A r \in Rands : \A q \in ParamSpace(resolved.strategy) \cup {NoParam} :
                    produce_template(resolved.strategy, r, q) = Ok(NoneV)
        /\ resolved.d.tag = "SearchStrategy" =>
              /\ resolved.err = "ok"
              /\ resolved.strategy = resolved.d.strategy
              /\ resolved.strategy.id = CallerId

C6_Witness ==
    /\ resolved.done /\ log = ModuleRegistrations
    /\ resolved.d = DNone
    /\ resolved.ctor = "define_none_strategy"
    /\ resolved.strategy = JustStrategy(NoneV, NewId)

\* C7: after any sequence of registrations, resolving d uses the constructor
\* most recently registered under d's exact key if there is one; otherwise
\* the first registered instance-of rule that accepts d; otherwise it fails
\* with a ResolutionError and returns no strategy.
C7_ResolutionOrder ==
    resolved.done =>
        LET d == resolved.d
            exact == {j \in 1..Len(log) : log[j].how = "exact" /\ log[j].key = d}
            inst == {j \in 1..Len(log) :
                        log[j].how = "instances" /\ IsInstance(d, log[j].cls)}
        IN IF exact # {}
           THEN /\ resolved.err = "ok"
                /\ \E j \in exact :
                      /\ \A k \in exact : k <= j
                      /\ resolved.ctor = log[j].ctor
                      /\ resolved.strategy = Apply(log[j].ctor, registry, d)
           ELSE IF inst # {}
           THEN /\ resolved.err = "ok"
                /\ \E j \in inst :
                      /\ \A k \in inst : j <= k
                      /\ resolved.ctor = log[j].ctor
                      /\ resolved.strategy = Apply(log[j].ctor, registry, d)
           ELSE /\ resolved.err = "ResolutionError"
                /\ resolved.strategy = NoStrat

C7_Witness ==
    /\ resolved.done
    /\ resolved.d = DBool
    /\ Len(log) = Len(ModuleRegistrations) + 2
    /\ log[Len(log) - 1] = ExactReg(DBool, "user_a")
    /\ log[Len(log)] = ExactReg(DBool, "user_b")
    /\ resolved.ctor = "user_b"

\* the argument was supplied and is not zero
SuppliedNonZero(arg) == arg # Omitted /\ arg # NoneV /\ arg.i # 0

\* C10: each field of a Settings object equals the argument when it is
\* supplied and non-zero and the default (5, 200, 60) when it is omitted,
\* None or 0; no field of a Settings object is None or 0.
C10_SettingsDefaults ==
    LET a == settings.args
        o == settings.obj
    IN /\ o.min_satisfying_examples =
             IF SuppliedNonZero(a[1]) THEN a[1] ELSE I(DefaultMinSatisfyingExamples)
       /\ o.max_examples =
             IF SuppliedNonZero(a[2]) THEN a[2] ELSE I(DefaultMaxExamples)
       /\ o.timeout = IF SuppliedNonZero(a[3]) THEN a[3] ELSE I(DefaultTimeout)
       /\ \A f \in {o.min_satisfying_examples, o.max_examples, o.timeout} :
             f.t = "int" /\ f.i # 0

C10_Witness ==
    /\ settings.args = <<I(0), Omitted, I(2)>>
    /\ settings.obj = [min_satisfying_examples |-> I(5), max_examples |-> I(200),
                       timeout |-> I(2)]

====
